---- MODULE Spec2Model ----
(***************************************************************************)
(* Kolibri desktop shell (src/src/main.py): locale bootstrap, the loading  *)
(* page selection of Application.setUp, the window list, the page_loaded   *)
(* delegate and the readiness poller Application.wait_for_server.          *)
(*                                                                         *)
(* Strings are sequences of one-character strings, so that startswith and  *)
(* split work on characters as they do in Python.                          *)
(***************************************************************************)
EXTENDS Integers, Sequences, FiniteSets, TLC

\* Number of windows ever created in one run (initial window included).
MaxWindows == 2

\* wait_for_server locals
timeout == 20
max_retries == 3

----------------------------------------------------------------------------
\* Strings

KOLIBRI_ROOT_URL ==
    <<"h","t","t","p",":","/","/","l","o","c","a","l","h","o","s","t",":","5","0","0","0">>

home_url == KOLIBRI_ROOT_URL

FileScheme == <<"f","i","l","e",":","/","/">>

LoadPrefix == <<"a","s","s","e","t","s","/","_","l","o","a","d","-">>

HtmlSuffix == <<".","h","t","m","l">>

\* The working directory os.path.abspath resolves against.
Cwd == <<"/","a","p","p">>

en_US == <<"e","n","_","U","S">>

es_ES == <<"e","s","_","E","S">>

de_DE == <<"d","e","_","D","E">>

pt_hyphen_BR == <<"p","t","-","B","R">>

fr == <<"f","r">>

es == <<"e","s">>

de == <<"d","e">>

pt == <<"p","t">>

Range(s) == {s[i] : i \in 1..Len(s)}

\* str.startswith
StartsWith(s, p) == Len(s) >= Len(p) /\ SubSeq(s, 1, Len(p)) = p

\* str.split(sep)[0]: the part before the first sep, the whole string without one
SplitFirst(s, sep) ==
    LET hits == {i \in 1..Len(s) : s[i] = sep}
    IN  IF hits = {} THEN s
        ELSE SubSeq(s, 1, (CHOOSE i \in hits : \A j \in hits : i <= j) - 1)

\* os.path.abspath(os.path.join('assets', '_load-{}.html'.format(lang_id)))
LoaderPage(lang_id) == Cwd \o <<"/">> \o LoadPrefix \o lang_id \o HtmlSuffix

\* list.remove(x): drops the first occurrence
ListRemove(l, x) ==
    LET i == CHOOSE k \in 1..Len(l) : l[k] = x /\ \A j \in 1..(k-1) : l[j] # x
    IN  SubSeq(l, 1, i-1) \o SubSeq(l, i+1, Len(l))

\* A dict without keys, and the one-key dicts of the program
EmptyDict == [k \in {} |-> <<>>]

Dict(key, value) == [k \in {key} |-> value]

----------------------------------------------------------------------------
\* Inputs

\* Language tags a catalog's metadata can carry
Tags == {en_US, es_ES, de_DE, pt_hyphen_BR, fr}

\* Loading pages that may or may not be shipped; the en_US page always is
OptionalPages == {LoaderPage(es_ES), LoaderPage(es), LoaderPage(pt), LoaderPage(de)}

\* Outcomes of gettext.translation(..., fallback=True)
Lookups == {"found", "fallback", "raise"}

\* URLs the toolkit may have persisted under "URL" when the app last slept
SavedURLs ==
    { KOLIBRI_ROOT_URL,
      KOLIBRI_ROOT_URL \o <<"/","l","e","a","r","n">>,
      KOLIBRI_ROOT_URL \o <<"1","/","l","e","a","r","n">>,
      <<"h","t","t","p",":","/","/","l","o","c","a","l","h","o","s","t",":","8","0","/">>,
      <<"h","t","t","p",":","/","/","k","o","l","i","b","r","i",".","o","r","g","/">> }

ViewStates == {EmptyDict} \cup {Dict("URL", u) : u \in SavedURLs}

\* Outcomes of one call of running(): urlopen answers; URLError and curl exits 0;
\* URLError and curl exits non-zero; an exception that is no URLError
ProbeOutcomes == {"ok", "curl_ok", "curl_fail", "raise"}

----------------------------------------------------------------------------
VARIABLES
    lookup,          \* outcome of the catalog lookup (input)
    catalog_lang,    \* Language of the catalog found (input)
    assets,          \* paths that exist on disk (input)
    locale_info,     \* module global
    app_state,       \* "module", "imported", "running", "keyerror", "valueerror", "shutdown"
    loader_url,      \* Application.loader_url, <<>> before setUp
    kolibri_loaded,  \* Application.kolibri_loaded
    view,            \* Application.view (window id), 0 before setUp
    windows,         \* Application.windows
    open,            \* windows the toolkit has open
    created,         \* number of KolibriView objects created
    loading,         \* per window: the URL being loaded, <<>> when idle
    hist,            \* per window: the back/forward list of the web view
    pc,              \* position of the poller thread
    time_spent,      \* wait_for_server local
    load_retries,    \* wait_for_server local
    saved_state,     \* wait_for_server local
    sent,            \* calls handed to pew.ui.run_on_main_thread, in order
    ran,             \* how many of them the main thread has run
    uiCalls,         \* log of the UI calls that ran
    probes,          \* number of running() calls
    sleeps,          \* number of time.sleep(1) calls
    probeOk,         \* running() has returned True
    stateReads,      \* number of get_view_state() calls
    clearCalls,      \* number of clear_history() calls
    shutdownRuns     \* number of WebUIView.shutdown() runs

localeVars == <<lookup, catalog_lang, assets, locale_info>>

appVars == <<app_state, loader_url, kolibri_loaded, view, windows, open, created,
             loading, hist, clearCalls, shutdownRuns>>

pollerVars == <<pc, time_spent, load_retries, saved_state, sent, probes, sleeps,
                probeOk, stateReads>>

mainVars == <<ran, uiCalls>>

vars == <<localeVars, appVars, pollerVars, mainVars>>

WindowIds == 1..MaxWindows

Started ==
    /\ locale_info = EmptyDict
    /\ app_state = "module"
    /\ loader_url = <<>>
    /\ kolibri_loaded = FALSE
    /\ view = 0
    /\ windows = <<>>
    /\ open = {}
    /\ created = 0
    /\ loading = [w \in WindowIds |-> <<>>]
    /\ hist = [w \in WindowIds |-> <<>>]
    /\ pc = "not_started"
    /\ time_spent = 0
    /\ load_retries = 0
    /\ saved_state = EmptyDict
    /\ sent = <<>>
    /\ ran = 0
    /\ uiCalls = <<>>
    /\ probes = 0
    /\ sleeps = 0
    /\ probeOk = FALSE
    /\ stateReads = 0
    /\ clearCalls = 0
    /\ shutdownRuns = 0

\* A run of the packaged application: the en_US and es loading pages are shipped
\* and the catalog lookup finds the es_ES catalog.
Init ==
    /\ lookup = "found"
    /\ catalog_lang = es_ES
    /\ assets = {LoaderPage(en_US), LoaderPage(es)}
    /\ Started

\* Every catalog lookup outcome, language tag and set of shipped loading pages.
InitLocale ==
    /\ lookup \in Lookups
    /\ catalog_lang \in Tags
    /\ assets \in {{LoaderPage(en_US)} \cup o : o \in SUBSET OptionalPages}
    /\ Started

----------------------------------------------------------------------------
\* Module level, lines 122-135

\* t.info(): the catalog's metadata; NullTranslations.info() is {}
TranslationInfo(outcome, lang) ==
    IF outcome = "found" THEN Dict("language", lang) ELSE EmptyDict

LoadLocale ==
    /\ app_state = "module"
    /\ locale_info' = IF lookup = "raise"
                        THEN Dict("language", en_US)
                        ELSE TranslationInfo(lookup, catalog_lang)
    /\ app_state' = "imported"
    /\ UNCHANGED <<lookup, catalog_lang, assets, loader_url, kolibri_loaded, view,
                   windows, open, created, loading, hist, clearCalls, shutdownRuns,
                   pollerVars, mainVars>>

\* os.path.exists
Exists(path) == path \in assets

\* Application.setUp, lines 225-232: the loading page for a language tag
ResolveLoaderPage(lang) ==
    LET first == LoaderPage(lang)
        base == LoaderPage(SplitFirst(lang, "-"))
    IN  IF Exists(first) THEN first
        ELSE IF Exists(base) THEN base
        ELSE LoaderPage(en_US)

\* Application.setUp; locale_info['language'] raises KeyError without the key
setUp ==
    /\ app_state = "imported"
    /\ IF "language" \notin DOMAIN locale_info
         THEN /\ app_state' = "keyerror"
              /\ UNCHANGED <<loader_url, kolibri_loaded, view, windows, open, created,
                             loading, hist, pc>>
         ELSE LET url == FileScheme \o ResolveLoaderPage(locale_info["language"])
              IN  /\ loader_url' = url
                  /\ kolibri_loaded' = FALSE
                  /\ created' = 1
                  /\ view' = 1
                  /\ windows' = <<1>>
                  /\ open' = {1}
                  /\ loading' = [loading EXCEPT ![1] = url]
                  /\ hist' = hist
                  /\ pc' = "probe"
                  /\ app_state' = "running"
    /\ UNCHANGED <<localeVars, clearCalls, shutdownRuns, time_spent, load_retries,
                   saved_state, sent, probes, sleeps, probeOk, stateReads, mainVars>>

----------------------------------------------------------------------------
\* Readiness poller: Application.wait_for_server, lines 331-374

Running == app_state = "running"

\* running(), lines 339-346: True when urlopen answers or curl exits 0
running(outcome) == outcome \in {"ok", "curl_ok"}

\* TimedOut with >= for >: the timeout fires one interval early
TimedOut_AtLimit(spent) == spent >= timeout

\* line 353
TimedOut(spent) == spent > timeout

\* line 354
MayRetry(retries) == retries < max_retries

\* A call handed to pew.ui.run_on_main_thread
Call(fn, arg) == [fn |-> fn, view |-> view, arg |-> arg]

\* line 349: one evaluation of the loop condition
Probe(outcome) ==
    /\ Running
    /\ pc = "probe"
    /\ probes' = probes + 1
    /\ IF outcome = "raise"
         THEN pc' = "crashed" /\ probeOk' = probeOk
         ELSE IF running(outcome)
                THEN pc' = "read_state" /\ probeOk' = TRUE
                ELSE pc' = "sleep" /\ probeOk' = probeOk
    /\ UNCHANGED <<localeVars, appVars, mainVars, time_spent, load_retries,
                   saved_state, sent, sleeps, stateReads>>

\* lines 350-352
Sleep ==
    /\ Running
    /\ pc = "sleep"
    /\ sleeps' = sleeps + 1
    /\ time_spent' = time_spent + 1
    /\ pc' = "check"
    /\ UNCHANGED <<localeVars, appVars, mainVars, load_retries, saved_state, sent,
                   probes, probeOk, stateReads>>

\* line 363: where the poller goes after scheduling show_error()
AfterError_KeepPolling == "probe"

AfterError == "failed"

\* lines 353-363
CheckTimeout ==
    /\ Running
    /\ pc = "check"
    /\ IF TimedOut(time_spent)
         THEN IF MayRetry(load_retries)
                THEN /\ sent' = Append(sent, Call("evaluate_javascript", "show_retry()"))
                     /\ load_retries' = load_retries + 1
                     /\ time_spent' = 0
                     /\ pc' = "probe"
                ELSE /\ sent' = Append(sent, Call("evaluate_javascript", "show_error()"))
                     /\ pc' = AfterError
                     /\ UNCHANGED <<load_retries, time_spent>>
         ELSE /\ pc' = "probe"
              /\ UNCHANGED <<sent, load_retries, time_spent>>
    /\ UNCHANGED <<localeVars, appVars, mainVars, saved_state, probes, sleeps,
                   probeOk, stateReads>>

\* line 367: saved_state = self.view.get_view_state(), called on the poller thread
ReadState(state) ==
    /\ Running
    /\ pc = "read_state"
    /\ saved_state' = state
    /\ stateReads' = stateReads + 1
    /\ pc' = "log_state"
    /\ UNCHANGED <<localeVars, appVars, mainVars, time_spent, load_retries, sent,
                   probes, sleeps, probeOk>>

\* line 368: the debug line calls self.view.get_view_state() again
LogState ==
    /\ Running
    /\ pc = "log_state"
    /\ stateReads' = stateReads + 1
    /\ pc' = "navigate"
    /\ UNCHANGED <<localeVars, appVars, mainVars, time_spent, load_retries,
                   saved_state, sent, probes, sleeps, probeOk>>

\* line 370
UseSaved(state) == "URL" \in DOMAIN state /\ StartsWith(state["URL"], home_url)

\* Navigation without the return of line 372: the saved URL falls through to line 374
Navigation_FallThrough(state) ==
    IF UseSaved(state) THEN <<Call("load_url", state["URL"]), Call("load_url", home_url)>>
                       ELSE <<Call("load_url", home_url)>>

\* lines 370-374: the load_url calls the poller schedules
Navigation(state) ==
    IF UseSaved(state) THEN <<Call("load_url", state["URL"])>>
                       ELSE <<Call("load_url", home_url)>>

Navigate ==
    /\ Running
    /\ pc = "navigate"
    /\ sent' = sent \o Navigation(saved_state)
    /\ pc' = "loaded"
    /\ UNCHANGED <<localeVars, appVars, mainVars, time_spent, load_retries,
                   saved_state, probes, sleeps, probeOk, stateReads>>

PollerNext ==
    \/ \E outcome \in ProbeOutcomes : Probe(outcome)
    \/ Sleep
    \/ CheckTimeout
    \/ \E state \in ViewStates : ReadState(state)
    \/ LogState
    \/ Navigate

----------------------------------------------------------------------------
\* Main thread

\* pew.ui.run_on_main_thread: the main thread runs the oldest pending call.
\* A web view that has been closed loads nothing.
RunOnMainThread ==
    /\ Running
    /\ ran < Len(sent)
    /\ LET call == sent[ran + 1]
       IN  /\ uiCalls' = Append(uiCalls, [fn |-> call.fn, view |-> call.view,
                                          arg |-> call.arg, thread |-> "main",
                                          listed |-> call.view \in Range(windows)])
           /\ loading' = IF call.fn = "load_url" /\ call.view \in open
                           THEN [loading EXCEPT ![call.view] = call.arg]
                           ELSE loading
    /\ ran' = ran + 1
    /\ UNCHANGED <<localeVars, pollerVars, app_state, loader_url, kolibri_loaded,
                   view, windows, open, created, hist, clearCalls, shutdownRuns>>

\* MenuEventHandler.on_new_window, lines 154-159, from the menu of window w
on_new_window(w) ==
    /\ Running
    /\ w \in open
    /\ created < MaxWindows
    /\ LET window == created + 1
       IN  /\ created' = window
           /\ windows' = Append(windows, window)
           /\ open' = open \cup {window}
           /\ loading' = [loading EXCEPT ![window] = KOLIBRI_ROOT_URL]
    /\ UNCHANGED <<localeVars, pollerVars, mainVars, app_state, loader_url,
                   kolibri_loaded, view, hist, clearCalls, shutdownRuns>>

\* line 211: whether shutdown returns without running the parent's shutdown
OthersOpen_Never(left) == FALSE

OthersOpen(left) == Len(left) > 0

\* KolibriView.shutdown, lines 201-215, when window w is closed;
\* list.remove raises ValueError for a window that is not in the list
shutdown(w) ==
    /\ Running
    /\ w \in open
    /\ open' = open \ {w}
    /\ IF w \notin Range(windows)
         THEN /\ app_state' = "valueerror"
              /\ UNCHANGED <<windows, shutdownRuns>>
         ELSE /\ windows' = ListRemove(windows, w)
              /\ IF OthersOpen(windows')
                   THEN UNCHANGED <<app_state, shutdownRuns>>
                   ELSE /\ shutdownRuns' = shutdownRuns + 1
                        /\ app_state' = "shutdown"
    /\ UNCHANGED <<localeVars, pollerVars, mainVars, loader_url, kolibri_loaded,
                   view, created, loading, hist, clearCalls>>

\* WebView.clear_history: only the current page stays in the back/forward list
ClearHistory(h) == IF h = <<>> THEN h ELSE <<h[Len(h)]>>

\* Window w finishes loading a page: the page enters the window's history and
\* the delegate's Application.page_loaded(url), lines 318-329, runs
page_loaded(w) ==
    /\ Running
    /\ w \in open
    /\ loading[w] # <<>>
    /\ LET url == loading[w]
           h == [hist EXCEPT ![w] = Append(hist[w], url)]
       IN  /\ loading' = [loading EXCEPT ![w] = <<>>]
           /\ IF ~kolibri_loaded /\ url # loader_url
                THEN /\ kolibri_loaded' = TRUE
                     /\ hist' = [h EXCEPT ![view] = ClearHistory(h[view])]
                     /\ clearCalls' = clearCalls + 1
                ELSE /\ hist' = h
                     /\ UNCHANGED <<kolibri_loaded, clearCalls>>
    /\ UNCHANGED <<localeVars, pollerVars, mainVars, app_state, loader_url, view,
                   windows, open, created, shutdownRuns>>

MainNext ==
    \/ RunOnMainThread
    \/ \E w \in WindowIds : on_new_window(w)
    \/ \E w \in WindowIds : shutdown(w)
    \/ \E w \in WindowIds : page_loaded(w)

----------------------------------------------------------------------------
Next == LoadLocale \/ setUp \/ PollerNext \/ MainNext

Spec == Init /\ [][Next]_vars

NextLocale == LoadLocale \/ setUp

SpecLocale == InitLocale /\ [][NextLocale]_vars

\* Fairness: the poller thread keeps being scheduled while the process lives.
FairSpec == Spec /\ WF_vars(PollerNext)

----------------------------------------------------------------------------
\* Properties

Min(a, b) == IF a < b THEN a ELSE b

Scripts(calls, script) ==
    Cardinality({i \in DOMAIN calls :
                    calls[i].fn = "evaluate_javascript" /\ calls[i].arg = script})

Retries(calls) == Scripts(calls, "show_retry()")

Errors(calls) == Scripts(calls, "show_error()")

Loads(calls) == Cardinality({i \in DOMAIN calls : calls[i].fn = "load_url"})

SuccessPath == {"read_state", "log_state", "navigate", "loaded"}

\* C1: once a probe of the server root has succeeded, the poller never emits
\* show_error(), goes straight to scheduling load_url, has scheduled exactly one
\* load_url on the main view when it stops, stays stopped, and (the thread being
\* scheduled) does reach that point unless the process exits first.
C1_ReachesLoaded ==
    /\ [](probeOk => /\ Errors(sent) = 0
                     /\ pc \in SuccessPath
                     /\ Loads(sent) = (IF pc = "loaded" THEN 1 ELSE 0)
                     /\ \A i \in DOMAIN sent : sent[i].fn = "load_url" => sent[i].view = view)
    /\ [][pc = "loaded" => UNCHANGED pollerVars]_vars
    /\ (probeOk ~> (pc = "loaded" \/ ~Running))

\* C1 witness: the poller stopped after a successful probe that followed two retries.
C1_Witness == pc = "loaded" /\ probeOk /\ Loads(sent) = 1 /\ Retries(sent) = 2

Period == timeout + 1

\* C2 as amended: show_retry() is emitted exactly once per period of timeout + 1 = 21
\* one-second intervals, resetting time_spent, at most max_retries = 3 times, and
\* show_error() exactly once, at the end of the period after the third retry.
C2_RetryPerPeriod ==
    LET done == IF pc = "check" THEN sleeps - 1 ELSE sleeps
    IN  /\ sleeps <= (max_retries + 1) * Period
        /\ Retries(sent) = Min(max_retries, done \div Period)
        /\ Errors(sent) = (IF done = (max_retries + 1) * Period THEN 1 ELSE 0)
        /\ load_retries = Retries(sent)
        /\ time_spent = sleeps - Period * Retries(sent)
        /\ (pc = "failed") = (Errors(sent) = 1)

\* C2 witness: the poller failed after three retries and one error signal.
C2_Witness == pc = "failed" /\ Retries(sent) = max_retries /\ Errors(sent) = 1

\* C2 as stated: one signal per period of timeout = 20 one-second intervals.
C2_AsStated ==
    LET done == IF pc = "check" THEN sleeps - 1 ELSE sleeps
    IN  /\ Retries(sent) = Min(max_retries, done \div timeout)
        /\ Errors(sent) = (IF done \div timeout > max_retries THEN 1 ELSE 0)
        /\ Retries(sent) <= max_retries
        /\ (Errors(sent) = 1 => Retries(sent) = max_retries)

\* C3: failed is terminal. After show_error() the poller makes no probe, sleeps no
\* more, reads no state and schedules no call; no load_url is ever scheduled or run
\* in a run that failed.
C3_FailedTerminal ==
    /\ [](Errors(sent) > 0 => /\ pc = "failed"
                              /\ Errors(sent) = 1
                              /\ Loads(sent) = 0
                              /\ Loads(uiCalls) = 0
                              /\ sent[Len(sent)].arg = "show_error()")
    /\ [][Errors(sent) > 0 => UNCHANGED pollerVars]_vars

\* C3 witness: the error signal has run and server content loaded afterwards in
\* another window.
C3_Witness == pc = "failed" /\ ran = Len(sent) /\ kolibri_loaded

\* The origin (scheme://host:port) of a URL: the text before the third slash.
Origin(url) ==
    LET slashes == {i \in 1..Len(url) : url[i] = "/"}
        third == {i \in slashes : Cardinality({j \in slashes : j < i}) = 2}
    IN  IF third = {} THEN url ELSE SubSeq(url, 1, (CHOOSE i \in third : TRUE) - 1)

\* C4: on success the poller navigates to the saved URL iff the key is present and
\* the URL's origin is the server's; otherwise to the base URL.
C4_NavigationTarget ==
    pc = "loaded" =>
        sent[Len(sent)].arg =
            (IF "URL" \in DOMAIN saved_state /\ Origin(saved_state["URL"]) = KOLIBRI_ROOT_URL
               THEN saved_state["URL"] ELSE home_url)

\* C5: the window list holds exactly the open windows, so it is empty only when no
\* window is open; the parent's shutdown runs only in the close that empties the
\* list, and a close that leaves windows open only removes the closed window.
C5_WindowList ==
    /\ [](/\ Range(windows) = open
          /\ Len(windows) = Cardinality(open)
          /\ (Running => windows # <<>>)
          /\ app_state # "valueerror"
          /\ shutdownRuns = (IF app_state = "shutdown" THEN 1 ELSE 0)
          /\ (shutdownRuns > 0 => windows = <<>>))
    /\ [][shutdownRuns' # shutdownRuns => Len(windows) = 1 /\ windows' = <<>>]_vars
    /\ [][open' # open /\ open' # {} /\ Cardinality(open') < Cardinality(open) =>
            /\ \E w \in open : open' = open \ {w} /\ windows' = ListRemove(windows, w)
            /\ UNCHANGED <<app_state, shutdownRuns, pollerVars, mainVars, loading,
                           hist, kolibri_loaded, view>>]_vars

\* C5 witness: the initial window was closed while the second window stays open.
C5_Witness == Running /\ created = 2 /\ windows = <<2>>

\* The tag with its region suffix removed
BaseLanguage(tag) ==
    LET seps == {i \in 1..Len(tag) : tag[i] \in {"_", "-"}}
    IN  IF seps = {} THEN tag
        ELSE SubSeq(tag, 1, (CHOOSE i \in seps : \A j \in seps : i <= j) - 1)

\* C6: the loading page is the exact-tag asset if it exists, else the base-language
\* asset if it exists, else the en_US asset, and loader_url names an existing path.
C6_FallbackChain ==
    app_state = "running" =>
        LET tag == locale_info["language"]
            page == IF LoaderPage(tag) \in assets THEN LoaderPage(tag)
                    ELSE IF LoaderPage(BaseLanguage(tag)) \in assets
                           THEN LoaderPage(BaseLanguage(tag))
                    ELSE LoaderPage(en_US)
        IN  loader_url = FileScheme \o page /\ page \in assets

\* C7: whatever the catalog lookup did, locale_info has a 'language' entry when
\* setUp reads it, and setUp does not fail on the key.
C7_LanguageEntry ==
    /\ app_state # "keyerror"
    /\ (app_state # "module" => "language" \in DOMAIN locale_info)

\* C8: every UI call of the poller runs on the main thread, and the poller reads
\* the view state exactly once in a run that succeeds and never otherwise.
C8_OneSnapshot ==
    /\ \A i \in DOMAIN uiCalls : uiCalls[i].thread = "main"
    /\ stateReads <= 1
    /\ (pc = "loaded" => stateReads = 1)

\* C9: once the main view has finished loading a page other than the loader URL,
\* its history no longer holds the loading page, kolibri_loaded is True and
\* clear_history has been called exactly once.
C9_NoBackToLoader ==
    (view # 0 /\ hist[view] # <<>> /\ hist[view][Len(hist[view])] # loader_url) =>
        /\ loader_url \notin Range(hist[view])
        /\ kolibri_loaded
        /\ clearCalls = 1

\* C10: every call the poller scheduled runs on a view that is in app.windows
\* at the time it runs.
C10_TargetStillOpen == \A i \in DOMAIN uiCalls : uiCalls[i].listed

====
